---- MODULE Spec2Model ----
(***************************************************************************)
(* DockerOrchestrator (src/docker_orchestrator.py): the per-session        *)
(* sandbox lifecycle (get_container and its two branches) and the          *)
(* workspace operations that pass through _get_safe_path.                  *)
(*                                                                         *)
(* Text (Python str) is a sequence of one-character strings; a path is a   *)
(* sequence of components, each component a text; the host filesystem is a *)
(* function from the absolute paths that exist to their nodes.             *)
(***************************************************************************)
EXTENDS Integers, Sequences, FiniteSets, TLC

VARIABLES
    fs,          \* host filesystem: [existing absolute path -> node]
    ctr,         \* the runtime's container named run_id (present or not)
    container,   \* [Orch -> self.container]
    pc,          \* [Orch -> position inside get_container()]
    loc,         \* [Orch -> locals of the running get_container()]
    ret,         \* what the step just taken returned to its caller, if it did
    call,        \* the operation step just taken
    rt,          \* the runtime calls the step just taken made
    createCalls, \* number of containers.run() calls issued so far
    acquires,    \* number of get_container() calls begun so far
    everInfo,    \* [Orch -> some get_container() on it returned ReadinessInfo]
    hist,        \* the last two finished get_container() results
    edits        \* number of operations so far that changed the filesystem

vars == <<fs, ctr, container, pc, loc, ret, call, rt, createCalls, acquires,
          everInfo, hist, edits>>

lifeVars == <<ctr, container, pc, loc, createCalls, acquires, everInfo, hist>>

-----------------------------------------------------------------------------
(* Bounds of the model.                                                    *)

MaxAcquires == 2     \* get_container() calls in one behaviour
MaxEdits == 2        \* operations in one behaviour that change the filesystem
MaxText == 3         \* length of a file's content
MaxBlock == 2        \* length of a search block
MaxReplace == 1      \* length of a replace block
MaxRound == 2        \* length of a content written and read back

-----------------------------------------------------------------------------
(* Text: str.startswith, str.count, str.replace(old, new, 1).              *)

Max(a, b) == IF a >= b THEN a ELSE b

StartsWith(s, pre) ==
    /\ Len(pre) <= Len(s)
    /\ SubSeq(s, 1, Len(pre)) = pre

\* sub matches s at the 1-based offset i
OccursAt(s, sub, i) ==
    /\ i >= 1
    /\ i + Len(sub) - 1 <= Len(s)
    /\ SubSeq(s, i, i + Len(sub) - 1) = sub

\* str.find from offset i: the least offset >= i of a match, 0 when none
Find(s, sub, i) ==
    LET hits == {j \in i..(Len(s) + 1) : OccursAt(s, sub, j)}
    IN  IF hits = {} THEN 0
        ELSE CHOOSE j \in hits : \A k \in hits : j <= k

RECURSIVE CountFrom(_, _, _)
CountFrom(s, sub, i) ==
    LET j == Find(s, sub, i)
    IN  IF j = 0 THEN 0
        ELSE 1 + CountFrom(s, sub, j + Max(Len(sub), 1))

\* str.count: the number of NON-OVERLAPPING matches, scanning left to right
StrCount(s, sub) == CountFrom(s, sub, 1)

\* the arguments of str.replace exchanged
ReplaceFirstSwapped(s, old, new) ==
    LET j == Find(s, new, 1)
    IN  IF j = 0 THEN s
        ELSE SubSeq(s, 1, j - 1) \o old \o SubSeq(s, j + Len(new), Len(s))

\* str.replace(old, new, 1): the leftmost match replaced
ReplaceFirst(s, old, new) ==
    LET j == Find(s, old, 1)
    IN  IF j = 0 THEN s
        ELSE SubSeq(s, 1, j - 1) \o new \o SubSeq(s, j + Len(old), Len(s))

-----------------------------------------------------------------------------
(* Paths.                                                                  *)

Dot == <<".">>
DotDot == <<".", ".">>
Empty == <<>>          \* the empty segment of "a//b" or of a trailing slash

RunId == <<"r">>                  \* self.run_id
SiblingId == <<"r", "x">>         \* another session's id, with run_id as prefix
OtherId == <<"q">>                \* another session's id, unrelated
NameA == <<"a">>
NameB == <<"b">>

Root == <<>>                      \* "/"
workspace_root == <<(<<"w">>)>>   \* "/w"
project_dir == Append(workspace_root, RunId)

\* str(path)
RECURSIVE PathStr(_)
PathStr(p) ==
    IF p = <<>> THEN <<"/">>
    ELSE IF Len(p) = 1 THEN <<"/">> \o p[1]
    ELSE PathStr(SubSeq(p, 1, Len(p) - 1)) \o <<"/">> \o p[Len(p)]

Parent(p) == IF p = <<>> THEN <<>> ELSE SubSeq(p, 1, Len(p) - 1)

\* (base / rel).resolve() with no symlinks: "." and "" dropped, ".." pops,
\* and ".." at the root stays at the root
RECURSIVE Resolve(_, _)
Resolve(base, rel) ==
    IF rel = <<>> THEN base
    ELSE LET seg == Head(rel)
             next == IF seg = Dot \/ seg = Empty THEN base
                     ELSE IF seg = DotDot THEN Parent(base)
                     ELSE Append(base, seg)
         IN  Resolve(next, Tail(rel))

\* p is q or a descendant of q, as trees are
IsPrefix(q, p) == Len(q) <= Len(p) /\ SubSeq(p, 1, Len(q)) = q
Inside(p) == IsPrefix(project_dir, p)

\* the test of lines 126 and 270: a prefix test on the STRINGS
GuardPasses(target) == StartsWith(PathStr(target), PathStr(project_dir))

-----------------------------------------------------------------------------
(* The host filesystem (no symbolic links).                                *)

DirNode == [kind |-> "dir", content |-> <<>>]
FileNode(c) == [kind |-> "file", content |-> c]

Exists(f, p) == p \in DOMAIN f
IsFile(f, p) == p \in DOMAIN f /\ f[p].kind = "file"
IsDir(f, p) == p \in DOMAIN f /\ f[p].kind = "dir"

\* p and every ancestor of p
Ancestors(p) == {SubSeq(p, 1, n) : n \in 0..Len(p)}

\* an outcome of a piece of code: it raised (val names the exception) or it
\* returned val; fs is the filesystem it leaves, rt the runtime calls it made
Raise(e, f, calls) == [exc |-> TRUE, val |-> e, fs |-> f, rt |-> calls]
Return(v, f, calls) == [exc |-> FALSE, val |-> v, fs |-> f, rt |-> calls]

\* Path.mkdir(parents=True, exist_ok=True)
MkdirParents(f, p) ==
    IF IsDir(f, p) THEN Return("ok", f, {})
    ELSE IF IsFile(f, p) THEN Raise("FileExistsError", f, {})
    ELSE IF \E q \in Ancestors(p) : IsFile(f, q)
         THEN Raise("NotADirectoryError", f, {})
    ELSE Return("ok",
                [q \in DOMAIN f \cup Ancestors(p) |->
                    IF q \in DOMAIN f THEN f[q] ELSE DirNode],
                {})

\* open(p, "w").write(c): the parent must be a directory, p must not be one
WriteText(f, p, c) ==
    IF IsDir(f, p) THEN Raise("IsADirectoryError", f, {})
    ELSE IF ~IsDir(f, Parent(p)) THEN Raise("FileNotFoundError", f, {})
    ELSE Return("ok", [q \in DOMAIN f \cup {p} |->
                          IF q = p THEN FileNode(c) ELSE f[q]], {})

\* shutil.move(src, dst) for an existing src and a dst that does not exist:
\* os.rename moves the whole subtree, and fails when dst lies inside src
Moved(src, dst, q) == dst \o SubSeq(q, Len(src) + 1, Len(q))
ShutilMove(f, src, dst) ==
    IF IsPrefix(src, dst) THEN Raise("shutil.Error", f, {})
    ELSE IF ~IsDir(f, Parent(dst)) THEN Raise("FileNotFoundError", f, {})
    ELSE LET gone == {q \in DOMAIN f : IsPrefix(src, q)}
             kept == DOMAIN f \ gone
             new == {Moved(src, dst, q) : q \in gone}
         IN  Return("ok",
                    [q \in kept \cup new |->
                        IF q \in new
                        THEN f[CHOOSE g \in gone : Moved(src, dst, g) = q]
                        ELSE f[q]],
                    {})

\* open(p, "r").read() in text mode with the default newline=None: "\r\n"
\* and a lone "\r" are handed to the program as "\n"
RECURSIVE UniversalNewlines(_)
UniversalNewlines(c) ==
    IF c = <<>> THEN <<>>
    ELSE IF Head(c) = "\r"
         THEN <<"\n">> \o UniversalNewlines(IF Len(c) >= 2 /\ c[2] = "\n"
                                            THEN Tail(Tail(c)) ELSE Tail(c))
    ELSE <<Head(c)>> \o UniversalNewlines(Tail(c))

ReadText(f, p) == UniversalNewlines(f[p].content)

\* rm -rf of the subtree at p
RemoveTree(f, p) == [q \in {q \in DOMAIN f : ~IsPrefix(p, q)} |-> f[q]]

\* every path that exists has a directory as parent
WellFormed(f) ==
    /\ IsDir(f, Root)
    /\ \A p \in DOMAIN f : p # Root => IsDir(f, Parent(p))

-----------------------------------------------------------------------------
(* Payloads, the container handle and the runtime's container.             *)

Orch == {"o1", "o2"}     \* orchestrator objects built for the one run_id

Null == [kind |-> "null"]                      \* self.container = None
Handle(n, st, p) == [kind |-> "container", name |-> n, status |-> st, port |-> p]

None == [kind |-> "none"]
Err(m) == [kind |-> "error", msg |-> m]
Fault(e) == [kind |-> "fault", msg |-> e]      \* an exception left the method
Success == [kind |-> "success"]
Content(c) == [kind |-> "content", content |-> c]
Info(n, p) == [kind |-> "info", name |-> n, port |-> p]
ErrNoContainer == Err("No container running. Start the container first")

NoPort == 0
Ports == {1, 2}          \* host ports the runtime may publish 5173/tcp on

\* the runtime's record of the container named run_id
NoCtr == [exists |-> FALSE, name |-> RunId, status |-> "none", boot |-> {},
          dev |-> FALSE, port |-> NoPort]

\* Container.attrs as an inspect of the runtime's container reads them
Snapshot == Handle(ctr.name, ctr.status,
                   IF ctr.status = "running" THEN ctr.port ELSE NoPort)

-----------------------------------------------------------------------------
(* Ordering of list_files.                                                 *)

CharOrder == <<".", "a", "b", "q", "r", "w", "x">>
CharRank(c) == CHOOSE i \in 1..Len(CharOrder) : CharOrder[i] = c

RECURSIVE LexLess(_, _)
LexLess(s, t) ==
    IF t = <<>> THEN FALSE
    ELSE IF s = <<>> THEN TRUE
    ELSE IF Head(s) = Head(t) THEN LexLess(Tail(s), Tail(t))
    ELSE CharRank(Head(s)) < CharRank(Head(t))

\* the entries ordered by name alone
EntryLessByName(a, b) == LexLess(a.name, b.name)

\* the key of line 145: (type != 'folder', name)
EntryLess(a, b) ==
    \/ a.type = "folder" /\ b.type # "folder"
    \/ a.type = b.type /\ LexLess(a.name, b.name)

RECURSIVE Sorted(_)
Sorted(S) ==
    IF S = {} THEN <<>>
    ELSE LET m == CHOOSE a \in S : \A b \in S \ {a} : EntryLess(a, b)
         IN  <<m>> \o Sorted(S \ {m})

-----------------------------------------------------------------------------
(* The methods, as outcomes computed from the current state.               *)

_get_safe_path(path_str) ==
    LET target_path == Resolve(project_dir, path_str)
    IN  IF ~GuardPasses(target_path)
        THEN Raise("Access Denied: Path outside workspace", fs, {})
        ELSE Return(target_path, fs, {})

Children(f, p) == {q \in DOMAIN f : q # Root /\ Parent(q) = p}

list_files(subpath) ==
    LET sp == _get_safe_path(subpath)
        target_path == sp.val
        kids == Children(fs, target_path)
    IN  IF sp.exc THEN sp
        ELSE IF ~Exists(fs, target_path)
             THEN Return(Err("Path does not exist"), fs, {})
        ELSE IF IsFile(fs, target_path) THEN Raise("NotADirectoryError", fs, {})
        ELSE IF \E q \in kids : ~Inside(q) THEN Raise("ValueError", fs, {})
        ELSE Return([kind |-> "entries",
                     items |-> Sorted({[name |-> q[Len(q)],
                                        type |-> IF IsDir(fs, q) THEN "folder"
                                                 ELSE "file",
                                        path |-> SubSeq(q, Len(project_dir) + 1,
                                                        Len(q))] : q \in kids})],
                    fs, {})

read_file(file_path) ==
    LET sp == _get_safe_path(file_path)
    IN  IF sp.exc THEN sp
        ELSE IF ~IsFile(fs, sp.val)
             THEN Return(Err("File not found or is a directory"), fs, {})
        ELSE Return(Content(ReadText(fs, sp.val)), fs, {})

write_file_folder(path, type_of_content, content) ==
    LET sp == _get_safe_path(path)
        target_path == sp.val
        mk == MkdirParents(fs, target_path)
        mp == MkdirParents(fs, Parent(target_path))
        wr == WriteText(mp.fs, target_path, content)
    IN  IF sp.exc THEN sp
        ELSE IF type_of_content = "folder"
             THEN IF mk.exc THEN mk ELSE Return(Success, mk.fs, {})
        ELSE IF type_of_content = "file"
             THEN IF mp.exc THEN mp
                  ELSE IF wr.exc THEN wr
                  ELSE Return(Success, wr.fs, {})
        ELSE Return(Err("Invalid type. Must be 'file' or 'folder'"), fs, {})

replace_code(file_path, search_block, replace_block) ==
    LET sp == _get_safe_path(file_path)
        target_path == sp.val
        content == ReadText(fs, target_path)
        count == StrCount(content, search_block)
        updated_content == ReplaceFirst(content, search_block, replace_block)
        wr == WriteText(fs, target_path, updated_content)
    IN  IF sp.exc THEN sp
        ELSE IF ~IsFile(fs, target_path)
             THEN Return(Err("File not found"), fs, {})
        ELSE IF count = 0 THEN Return(Err("Search block not found"), fs, {})
        ELSE IF count > 1 THEN Return(Err("Ambiguous match"), fs, {})
        ELSE IF wr.exc THEN wr
        ELSE Return(Success, wr.fs, {})

\* move_item without the test of line 276: an existing destination is replaced
move_item_overwrite(source_path, destination_path) ==
    LET sp == _get_safe_path(source_path)
        src == sp.val
        dest == Resolve(project_dir, destination_path)
        mk == MkdirParents(fs, Parent(dest))
        mv == ShutilMove(RemoveTree(mk.fs, dest), src, dest)
    IN  IF sp.exc THEN sp
        ELSE IF ~GuardPasses(dest)
             THEN Return(Err("Access denied: Destination outside workspace"),
                         fs, {})
        ELSE IF ~Exists(fs, src) THEN Return(Err("Source file not found"), fs, {})
        ELSE IF mk.exc THEN mk
        ELSE IF mv.exc THEN mv
        ELSE Return(Success, mv.fs, {})

move_item(source_path, destination_path) ==
    LET sp == _get_safe_path(source_path)
        src == sp.val
        dest == Resolve(project_dir, destination_path)
        mk == MkdirParents(fs, Parent(dest))
        mv == ShutilMove(mk.fs, src, dest)
    IN  IF sp.exc THEN sp
        ELSE IF ~GuardPasses(dest)
             THEN Return(Err("Access denied: Destination outside workspace"),
                         fs, {})
        ELSE IF ~Exists(fs, src) THEN Return(Err("Source file not found"), fs, {})
        ELSE IF Exists(fs, dest)
             THEN Return(Err("Destination already exists"), fs, {})
        ELSE IF mk.exc THEN mk
        ELSE IF mv.exc THEN mv
        ELSE Return(Success, mv.fs, {})

\* ---- read_file_formatted: the Markdown table of lines 174-181

NL == "\n"
Bar == "|"
Space == " "

\* f.readlines(): the lines, each keeping its newline
RECURSIVE ReadLines(_)
ReadLines(c) ==
    IF c = <<>> THEN <<>>
    ELSE LET j == Find(c, <<NL>>, 1)
         IN  IF j = 0 THEN <<c>>
             ELSE <<SubSeq(c, 1, j)>> \o ReadLines(SubSeq(c, j + 1, Len(c)))

\* str.rstrip()
RECURSIVE RStrip(_)
RStrip(c) ==
    IF c # <<>> /\ c[Len(c)] \in {NL, Space}
    THEN RStrip(SubSeq(c, 1, Len(c) - 1))
    ELSE c

\* str.replace("|", "\\|")
RECURSIVE EscapeBars(_)
EscapeBars(c) ==
    IF c = <<>> THEN <<>>
    ELSE (IF Head(c) = Bar THEN <<"\\", Bar>> ELSE <<Head(c)>>)
         \o EscapeBars(Tail(c))

DigitChars == <<"0", "1", "2", "3", "4", "5", "6", "7", "8", "9">>
RECURSIVE Decimal(_)
Decimal(n) ==
    IF n < 10 THEN <<DigitChars[n + 1]>>
    ELSE Decimal(n \div 10) \o <<DigitChars[(n % 10) + 1]>>

TableHead ==
    <<Bar, Space, "L", "i", "n", "e", Space, Bar, Space, "C", "o", "d", "e",
      Space, Bar, NL,
      Bar, "-", "-", "-", ":", Bar, ":", "-", "-", "-", Bar, NL>>

RECURSIVE TableRows(_, _)
TableRows(lines, idx) ==
    IF lines = <<>> THEN <<>>
    ELSE <<Bar, Space>> \o Decimal(idx) \o <<Space, Bar, Space>>
         \o EscapeBars(RStrip(Head(lines))) \o <<Space, Bar, NL>>
         \o TableRows(Tail(lines), idx + 1)

read_file_formatted(file_path) ==
    LET sp == _get_safe_path(file_path)
    IN  IF sp.exc THEN sp
        ELSE IF ~IsFile(fs, sp.val)
             THEN Return(Err("File not found or is a directory"), fs, {})
        ELSE Return(Content(TableHead
                            \o TableRows(ReadLines(ReadText(fs, sp.val)), 1)),
                    fs, {})

\* ---- the methods that run a command inside the container

\* what the runtime answers to one exec_run / logs call: a transport or API
\* failure, or an exit code and the output (a sequence of lines)
ExecAnswers ==
    {[fault |-> TRUE, exit |-> 1, out |-> <<>>],
     [fault |-> FALSE, exit |-> 0, out |-> <<>>],
     [fault |-> FALSE, exit |-> 1, out |-> <<>>]}

\* the answers to the grep of search_content: no match (exit 1, no output),
\* one match, a line without a line number
GrepAnswers ==
    ExecAnswers
    \cup {[fault |-> FALSE, exit |-> 0, out |-> <<(<<"a", ":", "1", ":", "b">>)>>],
          [fault |-> FALSE, exit |-> 0, out |-> <<(<<"a", ":", "1">>)>>]}

\* Container.exec_run(cmd) through the handle h with the runtime answering x
exec_run(h, x) ==
    IF h = Null THEN Raise("AttributeError", fs, {})
    ELSE IF ~ctr.exists \/ ctr.status # "running" \/ x.fault
         THEN Raise("APIError", fs, {"exec"})
    ELSE Return(x, fs, {"exec"})

\* /app/<path> on the host, for a path of plain names
AppPath(path) == project_dir \o path

delete_item(h, path, x) ==
    LET e == exec_run(h, x)
    IN  IF e.exc THEN e
        ELSE IF e.val.exit = 0
             THEN Return(Success,
                         IF path = <<>> THEN fs ELSE RemoveTree(fs, AppPath(path)),
                         e.rt)
        ELSE Return(Err("rm failed"), fs, e.rt)

\* line.split(':', 2)
SplitColon2(line) ==
    LET i == Find(line, <<":">>, 1)
        j == IF i = 0 THEN 0 ELSE Find(line, <<":">>, i + 1)
    IN  IF i = 0 THEN <<line>>
        ELSE IF j = 0 THEN <<SubSeq(line, 1, i - 1), SubSeq(line, i + 1, Len(line))>>
        ELSE <<SubSeq(line, 1, i - 1), SubSeq(line, i + 1, j - 1),
               SubSeq(line, j + 1, Len(line))>>

RECURSIVE LStrip(_)
LStrip(c) ==
    IF c # <<>> /\ Head(c) \in {NL, Space} THEN LStrip(Tail(c)) ELSE c

RECURSIVE ParseMatches(_)
ParseMatches(lines) ==
    IF lines = <<>> THEN <<>>
    ELSE LET parts == SplitColon2(Head(lines))
         IN  (IF Head(lines) # <<>> /\ Len(parts) >= 3
              THEN <<[file |-> parts[1], line |-> parts[2],
                      content |-> LStrip(RStrip(parts[3]))]>>
              ELSE <<>>)
             \o ParseMatches(Tail(lines))

search_content(h, search_term, x) ==
    LET e == exec_run(h, x)
    IN  IF e.exc THEN e
        ELSE IF e.val.exit # 0 /\ e.val.out = <<>>
             THEN Return([kind |-> "matches", items |-> <<>>], fs, e.rt)
        ELSE Return([kind |-> "matches", items |-> ParseMatches(e.val.out)],
                    fs, e.rt)

\* run_command and check_lint_errors: the exit code and the output, verbatim
run_command(h, command, x) ==
    LET e == exec_run(h, x)
    IN  IF e.exc THEN e
        ELSE Return([kind |-> "result", exit_code |-> e.val.exit,
                     output |-> e.val.out], fs, e.rt)

check_lint_errors(h, x) == run_command(h, "npx tsc --noEmit", x)

\* Container.logs(tail=lines), inside the method's own try
get_server_logs(h, lines, x) ==
    IF h = Null THEN Return(Err("AttributeError"), fs, {})
    ELSE IF ~ctr.exists \/ x.fault THEN Return(Err("APIError"), fs, {"logs"})
    ELSE Return([kind |-> "logs", logs |-> x.out], fs, {"logs"})

\* the decorator of lines 13-23 around a method whose outcome is out
require_container(h, out) ==
    IF h = Null THEN Return(ErrNoContainer, fs, {})
    ELSE IF out.exc THEN Return(Err(out.val), out.fs, out.rt)
    ELSE out

-----------------------------------------------------------------------------
(* Workspace operations as actions.  An orchestrator serves one call at a  *)
(* time: a workspace operation starts only when it is not inside           *)
(* get_container().                                                        *)

Idle(o) == pc[o] = "idle"

\* the arguments a step was called with: paths, a word (the kind of a write,
\* a command), two texts (content, search and replace block) and a number
NoArgs == [op |-> "", o |-> "", step |-> "whole", bound |-> FALSE,
           path |-> <<>>, dest |-> <<>>, word |-> "", a |-> <<>>, b |-> <<>>,
           n |-> 0]

\* the operation op of orchestrator o ends with outcome out
Finish(o, op, args, outcome) ==
    \E out \in {outcome} :
        /\ ret' = IF out.exc THEN Fault(out.val) ELSE out.val
        /\ fs' = out.fs
        /\ rt' = out.rt
        /\ call' = [args EXCEPT !.op = op, !.o = o, !.bound = container[o] # Null]
        /\ edits' = IF out.fs = fs THEN edits ELSE edits + 1
        /\ edits' <= MaxEdits
        /\ UNCHANGED lifeVars

ListFiles(o, subpath) ==
    /\ Idle(o)
    /\ Finish(o, "list", [NoArgs EXCEPT !.path = subpath],
              require_container(container[o], list_files(subpath)))

ReadFile(o, file_path) ==
    /\ Idle(o)
    /\ Finish(o, "read", [NoArgs EXCEPT !.path = file_path],
              require_container(container[o], read_file(file_path)))

ReadFileFormatted(o, file_path) ==
    /\ Idle(o)
    /\ Finish(o, "read_annotated", [NoArgs EXCEPT !.path = file_path],
              require_container(container[o], read_file_formatted(file_path)))

WriteFileFolder(o, path, type_of_content, content) ==
    /\ Idle(o)
    /\ Finish(o, "write", [NoArgs EXCEPT !.path = path, !.word = type_of_content,
                      !.a = content],
              require_container(container[o],
                                write_file_folder(path, type_of_content, content)))

\* delete_item carries no decorator (line 202)
DeleteItem(o, path, x) ==
    /\ Idle(o)
    /\ Finish(o, "delete", [NoArgs EXCEPT !.path = path], delete_item(container[o], path, x))

SearchContent(o, search_term, x) ==
    /\ Idle(o)
    /\ Finish(o, "search", [NoArgs EXCEPT !.a = search_term],
              require_container(container[o],
                                search_content(container[o], search_term, x)))

ReplaceCode(o, file_path, search_block, replace_block) ==
    /\ Idle(o)
    /\ Finish(o, "replace_block", [NoArgs EXCEPT !.path = file_path, !.a = search_block,
                      !.b = replace_block],
              require_container(container[o],
                                replace_code(file_path, search_block,
                                             replace_block)))

MoveItem(o, source_path, destination_path) ==
    /\ Idle(o)
    /\ Finish(o, "move", [NoArgs EXCEPT !.path = source_path, !.dest = destination_path],
              require_container(container[o],
                                move_item(source_path, destination_path)))

RunCommand(o, command, x) ==
    /\ Idle(o)
    /\ Finish(o, "run", [NoArgs EXCEPT !.word = command],
              require_container(container[o],
                                run_command(container[o], command, x)))

CheckLintErrors(o, x) ==
    /\ Idle(o)
    /\ Finish(o, "lint", NoArgs,
              require_container(container[o],
                                check_lint_errors(container[o], x)))

GetServerLogs(o, lines, x) ==
    /\ Idle(o)
    /\ Finish(o, "logs", [NoArgs EXCEPT !.n = lines],
              require_container(container[o],
                                get_server_logs(container[o], lines, x)))

-----------------------------------------------------------------------------
(* get_container(), one runtime call per step.                             *)

BootCommands == 1..3   \* apk add git; npx degit <template>; npm install

\* the session is Ready: the container runs and the dev server is alive
Ready == ctr.exists /\ ctr.status = "running" /\ ctr.dev

\* the locals of a get_container(): the handle of line 81, the bootstrap
\* command to run next, and whether the session was Ready before every step
\* of the call so far
NoLocals == [h |-> Null, k |-> 0, ready |-> TRUE]

\* a step of get_container() on o that made the runtime calls `calls`; call
\* records whether the session was Ready before this step and all earlier
\* ones of the call
AcqStep(o, step, calls) ==
    /\ call' = [NoArgs EXCEPT !.op = "acquire", !.o = o, !.step = step,
                              !.bound = container[o] # Null,
                              !.word = IF loc[o].ready /\ Ready THEN "ready"
                                       ELSE ""]
    /\ rt' = calls
    /\ UNCHANGED <<fs, edits>>

\* what hist keeps of a returned payload: its kind and the name it carries
Brief(payload) ==
    [kind |-> payload.kind,
     name |-> IF payload.kind = "info" THEN payload.name ELSE <<>>]

\* get_container() on o returns payload; disturbed: a runtime fault hit it
AcqReturn(o, payload, disturbed) ==
    /\ pc' = [pc EXCEPT ![o] = "idle"]
    /\ loc' = [loc EXCEPT ![o] = NoLocals]
    /\ ret' = payload
    /\ everInfo' = [everInfo EXCEPT ![o] = @ \/ payload.kind = "info"]
    /\ hist' = [prev |-> hist.last, last |-> Brief(payload),
                clean |-> ~hist.dirtyPrev /\ ~hist.dirtyCur /\ ~disturbed,
                dirtyPrev |-> hist.dirtyPrev,
                dirtyCur |-> hist.dirtyCur \/ disturbed]

\* get_container() on o goes on at position next
AcqGoto(o, next, locals) ==
    /\ pc' = [pc EXCEPT ![o] = next]
    /\ loc' = [loc EXCEPT ![o] = [locals EXCEPT !.ready = loc[o].ready /\ Ready]]
    /\ ret' = None
    /\ UNCHANGED <<everInfo, hist>>

\* the lookup's answer ignored: always create
LookupBranchAlwaysCreate(found) == "create"

\* lines 45-47: a container of that name leads to restart_previous_container,
\* NotFound to create_new_container
LookupBranch(found) == IF found THEN "restart_get" ELSE "create"

\* a lock around get_container(): it begins only while no other call is inside
MayBeginAlone(o) == \A q \in Orch : Idle(q)

\* lines 42-45: get_container() takes no lock and tests no flag before the
\* lookup, so nothing in the class keeps a call from beginning
MayBegin(o) == TRUE

\* lines 45-53: self.client.containers.get(self.run_id); any exception other
\* than NotFound becomes an error payload
AcquireLookup(o, fault) ==
    /\ Idle(o)
    /\ MayBegin(o)
    /\ acquires < MaxAcquires
    /\ acquires' = acquires + 1
    /\ AcqStep(o, "lookup", {"get"})
    /\ UNCHANGED <<ctr, container, createCalls, everInfo>>
    /\ loc' = [loc EXCEPT ![o] = [NoLocals EXCEPT !.ready = ~fault /\ Ready]]
    /\ IF fault
       THEN /\ ret' = Err("APIError")
            /\ hist' = [prev |-> hist.last, last |-> Brief(Err("APIError")),
                        clean |-> FALSE, dirtyPrev |-> hist.dirtyCur,
                        dirtyCur |-> TRUE]
            /\ UNCHANGED pc
       ELSE /\ pc' = [pc EXCEPT ![o] = LookupBranch(ctr.exists)]
            /\ hist' = [hist EXCEPT !.dirtyPrev = hist.dirtyCur,
                                    !.dirtyCur = FALSE]
            /\ ret' = None

\* what containers.run(detach=True) can do: create and start the container,
\* create it and fail to start it, or fail before creating it
RunAnswers == {"started", "created", "failed"}

\* lines 58-67
CreateRun(o, answer, port) ==
    /\ pc[o] = "create"
    /\ AcqStep(o, "create", {"run"})
    /\ createCalls' = createCalls + 1
    /\ UNCHANGED acquires
    /\ IF ctr.exists \/ answer = "failed"
       THEN /\ AcqReturn(o, Err("APIError"), ~ctr.exists)
            /\ UNCHANGED <<ctr, container>>
       ELSE IF answer = "created"
       THEN /\ ctr' = [NoCtr EXCEPT !.exists = TRUE, !.status = "created"]
            /\ AcqReturn(o, Err("APIError"), TRUE)
            /\ UNCHANGED container
       ELSE /\ ctr' = [NoCtr EXCEPT !.exists = TRUE, !.status = "running",
                                    !.port = port]
            /\ container' = [container EXCEPT
                                ![o] = Handle(RunId, "created", NoPort)]
            /\ AcqGoto(o, "boot", [NoLocals EXCEPT !.k = 1])

\* the exit code never looked at
CommandNeverFails(x) == FALSE

\* lines 105-106: a non-zero exit code raises
CommandFailed(x) == x.exit # 0

\* lines 68-70 and 103-106: _run_command_strict of bootstrap command loc[o].k;
\* call records which command it was and how the command ended
BootStep(o, x) ==
    LET e == exec_run(container[o], x)
        k == loc[o].k
    IN  /\ pc[o] = "boot"
        /\ call' = [NoArgs EXCEPT !.op = "acquire", !.o = o, !.step = "boot",
                                  !.bound = container[o] # Null, !.n = k,
                                  !.word = IF e.exc THEN "raised"
                                           ELSE IF e.val.exit = 0 THEN "zero"
                                           ELSE "nonzero"]
        /\ rt' = e.rt
        /\ UNCHANGED <<fs, edits>>
        /\ UNCHANGED <<container, createCalls, acquires>>
        /\ IF e.exc
           THEN /\ AcqReturn(o, Err(e.val), TRUE)
                /\ UNCHANGED ctr
           ELSE IF CommandFailed(e.val)
           THEN /\ AcqReturn(o, Err("Command failed"), FALSE)
                /\ UNCHANGED ctr
           ELSE /\ ctr' = [ctr EXCEPT !.boot = IF e.val.exit = 0 THEN @ \cup {k}
                                               ELSE @]
                /\ IF k < 3
                   THEN AcqGoto(o, "boot", [loc[o] EXCEPT !.k = k + 1])
                   ELSE AcqGoto(o, "ensure_probe", loc[o])

\* pgrep -f 'vite' through handle h: exit code 0 exactly when vite runs
Pgrep(h, fault) ==
    exec_run(h, [fault |-> fault, exit |-> IF ctr.dev THEN 0 ELSE 1, out |-> <<>>])

\* the dev server some seconds after `npm run dev -- --host` was launched: it
\* can only be up when the template and its dependencies are installed
LaunchResults == IF ctr.boot = BootCommands THEN BOOLEAN ELSE {FALSE}

\* line 109
EnsureProbe(o, fault) ==
    LET e == Pgrep(container[o], fault)
    IN  /\ pc[o] = "ensure_probe"
        /\ AcqStep(o, "probe", e.rt)
        /\ UNCHANGED <<ctr, container, createCalls, acquires>>
        /\ IF e.exc THEN AcqReturn(o, Err(e.val), TRUE)
           ELSE IF e.val.exit # 0 THEN AcqGoto(o, "ensure_launch", loc[o])
           ELSE AcqGoto(o, "ensure_port", loc[o])

\* lines 112-113
EnsureLaunch(o, fault, up) ==
    LET e == exec_run(container[o], [fault |-> fault, exit |-> 0, out |-> <<>>])
    IN  /\ pc[o] = "ensure_launch"
        /\ AcqStep(o, "launch", e.rt)
        /\ UNCHANGED <<container, createCalls, acquires>>
        /\ IF e.exc
           THEN /\ AcqReturn(o, Err(e.val), TRUE)
                /\ UNCHANGED ctr
           ELSE /\ up \in LaunchResults
                /\ ctr' = [ctr EXCEPT !.dev = @ \/ up]
                /\ AcqGoto(o, "ensure_port", loc[o])

\* lines 119-122: the ReadinessInfo built from self.container
EnsureInfo(h) == Info(h.name, h.port)

\* lines 115-122: reload() refreshes the handle's attributes, then the port
EnsurePort(o, fault) ==
    /\ pc[o] = "ensure_port"
    /\ AcqStep(o, "port", {"reload"})
    /\ UNCHANGED <<ctr, createCalls, acquires>>
    /\ IF fault \/ ~ctr.exists
       THEN /\ AcqReturn(o, Err("APIError"), TRUE)
            /\ UNCHANGED container
       ELSE /\ container' = [container EXCEPT ![o] = Snapshot]
            /\ IF Snapshot.port = NoPort
               THEN AcqReturn(o, Err("KeyError"), FALSE)
               ELSE AcqReturn(o, EnsureInfo(Snapshot), FALSE)

\* start() whatever the status
AlwaysStart(h) == TRUE

\* line 82
NeedsStart(h) == h.status # "running"

\* line 81: the second lookup, kept in the local `container`
RestartGet(o, fault) ==
    /\ pc[o] = "restart_get"
    /\ AcqStep(o, "get", {"get"})
    /\ UNCHANGED <<ctr, container, createCalls, acquires>>
    /\ IF fault \/ ~ctr.exists THEN AcqReturn(o, Err("APIError"), TRUE)
       ELSE IF NeedsStart(Snapshot)
       THEN AcqGoto(o, "restart_start", [loc[o] EXCEPT !.h = Snapshot])
       ELSE AcqGoto(o, "restart_probe", [loc[o] EXCEPT !.h = Snapshot])

\* lines 83-84: start() of a container that is not running publishes the
\* port anew and runs only the container's own command
RestartStart(o, fault, port) ==
    /\ pc[o] = "restart_start"
    /\ AcqStep(o, "start", {"start"})
    /\ UNCHANGED <<container, createCalls, acquires>>
    /\ IF fault \/ ~ctr.exists
       THEN /\ AcqReturn(o, Err("APIError"), TRUE)
            /\ UNCHANGED ctr
       ELSE /\ ctr' = IF ctr.status = "running" THEN ctr
                      ELSE [ctr EXCEPT !.status = "running", !.dev = FALSE,
                                       !.port = port]
            /\ AcqGoto(o, "restart_probe", loc[o])

\* line 86
RestartProbe(o, fault) ==
    LET e == Pgrep(loc[o].h, fault)
    IN  /\ pc[o] = "restart_probe"
        /\ AcqStep(o, "probe", e.rt)
        /\ UNCHANGED <<ctr, container, createCalls, acquires>>
        /\ IF e.exc THEN AcqReturn(o, Err(e.val), TRUE)
           ELSE IF e.val.exit # 0 THEN AcqGoto(o, "restart_launch", loc[o])
           ELSE AcqGoto(o, "restart_port", loc[o])

\* lines 88-90
RestartLaunch(o, fault, up) ==
    LET e == exec_run(loc[o].h, [fault |-> fault, exit |-> 0, out |-> <<>>])
    IN  /\ pc[o] = "restart_launch"
        /\ AcqStep(o, "launch", e.rt)
        /\ UNCHANGED <<container, createCalls, acquires>>
        /\ IF e.exc
           THEN /\ AcqReturn(o, Err(e.val), TRUE)
                /\ UNCHANGED ctr
           ELSE /\ up \in LaunchResults
                /\ ctr' = [ctr EXCEPT !.dev = @ \/ up]
                /\ AcqGoto(o, "restart_port", loc[o])

\* the container's id reported in place of its name
RestartInfoById(h) == Info(<<"i", "d">>, h.port)

\* lines 94-97: the ReadinessInfo built from the local handle
RestartInfo(h) == Info(h.name, h.port)

\* lines 91-97: the port is read from the attributes line 81 fetched
RestartPort(o) ==
    /\ pc[o] = "restart_port"
    /\ AcqStep(o, "port", {})
    /\ UNCHANGED <<ctr, createCalls, acquires>>
    /\ IF loc[o].h.port = NoPort
       THEN /\ AcqReturn(o, Err("KeyError"), FALSE)
            /\ UNCHANGED container
       ELSE /\ container' = [container EXCEPT ![o] = loc[o].h]
            /\ AcqReturn(o, RestartInfo(loc[o].h), FALSE)

\* ---- the environment: the dev server dies, the container stops

DevServerCrash ==
    /\ ctr.exists /\ ctr.dev
    /\ ctr' = [ctr EXCEPT !.dev = FALSE]
    /\ hist' = [hist EXCEPT !.dirtyCur = TRUE]
    /\ call' = [NoArgs EXCEPT !.op = "env", !.step = "crash"]
    /\ rt' = {}
    /\ ret' = None
    /\ UNCHANGED <<fs, edits, container, pc, loc, createCalls, acquires,
                   everInfo>>

ContainerStops ==
    /\ ctr.exists /\ ctr.status = "running"
    /\ ctr' = [ctr EXCEPT !.status = "exited", !.dev = FALSE, !.port = NoPort]
    /\ hist' = [hist EXCEPT !.dirtyCur = TRUE]
    /\ call' = [NoArgs EXCEPT !.op = "env", !.step = "stop"]
    /\ rt' = {}
    /\ ret' = None
    /\ UNCHANGED <<fs, edits, container, pc, loc, createCalls, acquires,
                   everInfo>>

-----------------------------------------------------------------------------
(* Inputs.                                                                 *)

Chars == {"a", "b"}
RECURSIVE TextsUpTo(_)
TextsUpTo(n) ==
    IF n = 0 THEN {<<>>}
    ELSE LET shorter == TextsUpTo(n - 1)
         IN  shorter \cup {Append(t, c) : t \in shorter, c \in Chars}

\* the texts over the characters S of length up to n
RECURSIVE TextsOver(_, _)
TextsOver(S, n) ==
    IF n = 0 THEN {<<>>}
    ELSE LET shorter == TextsOver(S, n - 1)
         IN  shorter \cup {Append(t, c) : t \in shorter, c \in S}

CR == "\r"
Texts == TextsOver(Chars \cup {CR}, MaxText)   \* file contents, as stored
Blocks == TextsUpTo(MaxBlock)     \* search blocks
Replacements == TextsUpTo(MaxReplace)   \* replace blocks

Kinds == {"file", "folder", "link"}
Commands == {"true", "false"}

\* relative paths for the operations that only read: inside, outside, at
\* the root itself, with "." and empty segments, into sibling directories
GuardPaths ==
    {<<Dot>>, <<Empty>>, <<NameA>>, <<NameA, Empty>>, <<Dot, NameA>>,
     <<NameA, NameA>>, <<NameA, DotDot>>, <<NameA, DotDot, DotDot>>,
     <<DotDot>>, <<DotDot, DotDot>>, <<DotDot, OtherId>>, <<DotDot, RunId>>,
     <<DotDot, RunId, NameA>>, <<DotDot, SiblingId>>,
     <<DotDot, SiblingId, NameA>>}

\* the paths the mutating operations are tried on
EditPaths ==
    {<<Dot>>, <<NameA>>, <<NameB>>, <<NameA, NameA>>,
     <<DotDot, OtherId>>, <<DotDot, SiblingId>>}

Names == {NameA, NameB}

\* plain-name paths under /app for delete_item
DeletePaths == {<<n1>> : n1 \in Names}

-----------------------------------------------------------------------------
(* The lifecycle specification: every operation, with get_container()      *)
(* calls serialized (no orchestrator starts one while another is inside).  *)

BaseFs == [p \in Ancestors(project_dir) |-> DirNode]

Init ==
    /\ fs = BaseFs
    /\ ctr = NoCtr
    /\ container = [o \in Orch |-> Null]
    /\ pc = [o \in Orch |-> "idle"]
    /\ loc = [o \in Orch |-> NoLocals]
    /\ ret = None
    /\ call = NoArgs
    /\ rt = {}
    /\ createCalls = 0
    /\ acquires = 0
    /\ everInfo = [o \in Orch |-> FALSE]
    /\ hist = [prev |-> Brief(None), last |-> Brief(None), clean |-> FALSE,
               dirtyPrev |-> FALSE, dirtyCur |-> FALSE]
    /\ edits = 0

Quiet == \A o \in Orch : Idle(o)

\* get_container() calls as concurrent callers make them: a call begins
\* whatever the other orchestrators are doing
AcquireBegin(o) == \E fault \in BOOLEAN : AcquireLookup(o, fault)

\* the steps of a get_container() that has begun
AcquireBody(o) ==
    \/ \E a \in RunAnswers, p \in Ports : CreateRun(o, a, p)
    \/ \E x \in ExecAnswers : BootStep(o, x)
    \/ \E fault \in BOOLEAN : EnsureProbe(o, fault)
    \/ \E fault \in BOOLEAN, up \in BOOLEAN : EnsureLaunch(o, fault, up)
    \/ \E fault \in BOOLEAN : EnsurePort(o, fault)
    \/ \E fault \in BOOLEAN : RestartGet(o, fault)
    \/ \E fault \in BOOLEAN, p \in Ports : RestartStart(o, fault, p)
    \/ \E fault \in BOOLEAN : RestartProbe(o, fault)
    \/ \E fault \in BOOLEAN, up \in BOOLEAN : RestartLaunch(o, fault, up)
    \/ RestartPort(o)

Acquire(o) ==
    \/ Quiet /\ AcquireBegin(o)
    \/ AcquireBody(o)

Environment == DevServerCrash \/ ContainerStops

\* the operations that run inside the container
SandboxOps(o) ==
    \/ \E p \in DeletePaths, x \in ExecAnswers : Quiet /\ DeleteItem(o, p, x)
    \/ \E x \in GrepAnswers : Quiet /\ SearchContent(o, <<"a">>, x)
    \/ \E c \in Commands, x \in ExecAnswers : Quiet /\ RunCommand(o, c, x)
    \/ \E x \in ExecAnswers : Quiet /\ CheckLintErrors(o, x)
    \/ \E x \in ExecAnswers : Quiet /\ GetServerLogs(o, 50, x)

Next ==
    \/ \E o \in Orch : Acquire(o)
    \/ Environment
    \/ \E o \in Orch : SandboxOps(o)
    \/ \E o \in Orch : Quiet /\ ReadFile(o, <<NameA>>)

Spec == Init /\ [][Next]_vars

-----------------------------------------------------------------------------
(* The concurrent specification: get_container() calls of the two          *)
(* orchestrators of one run_id, interleaved step by step.                  *)

NextRace ==
    \/ \E o \in Orch : AcquireBegin(o)
    \/ \E o \in Orch : AcquireBody(o)

SpecRace == Init /\ [][NextRace]_vars

-----------------------------------------------------------------------------
(* The workspace specification: the operations on the host-mounted         *)
(* workspace, tried by an orchestrator whose get_container() has returned  *)
(* ReadinessInfo ("o1") and by one that never called it ("o2").            *)

ReadyCtr == [NoCtr EXCEPT !.exists = TRUE, !.status = "running",
                          !.boot = BootCommands, !.dev = TRUE, !.port = 1]

\* the state a first, undisturbed get_container() on "o1" leaves
AfterAcquire ==
    /\ ctr = ReadyCtr
    /\ container = [o \in Orch |->
                       IF o = "o1" THEN Handle(RunId, "running", 1) ELSE Null]
    /\ pc = [o \in Orch |-> "idle"]
    /\ loc = [o \in Orch |-> NoLocals]
    /\ createCalls = 1
    /\ acquires = 1
    /\ everInfo = [o \in Orch |-> o = "o1"]
    /\ hist = [prev |-> Brief(None), last |-> Brief(Info(RunId, 1)),
               clean |-> TRUE, dirtyPrev |-> FALSE, dirtyCur |-> FALSE]

InitFs ==
    /\ AfterAcquire
    /\ fs = BaseFs
    /\ edits = 0
    /\ ret = Info(RunId, 1)
    /\ call = [NoArgs EXCEPT !.op = "acquire", !.o = "o1", !.step = "port",
                             !.bound = TRUE]
    /\ rt = {"reload"}

HostOps(o) ==
    \/ \E p \in GuardPaths : ListFiles(o, p)
    \/ \E p \in EditPaths : ReadFile(o, p)
    \/ \E p \in EditPaths : ReadFileFormatted(o, p)
    \/ \E p \in EditPaths, k \in Kinds : WriteFileFolder(o, p, k, <<"a">>)
    \/ \E p \in EditPaths, d \in EditPaths : MoveItem(o, p, d)
    \/ \E p \in DeletePaths : DeleteItem(o, p, [fault |-> FALSE, exit |-> 0,
                                                 out |-> <<>>])

NextFs == HostOps("o1")

SpecFs == InitFs /\ [][NextFs]_vars

-----------------------------------------------------------------------------
(* The block-replace specification: replace_code on one file, whose        *)
(* content and whose blocks range over every short text.                   *)

TextFile == <<NameA>>

InitText ==
    /\ AfterAcquire
    /\ \E c \in Texts :
          fs = [p \in DOMAIN BaseFs \cup {Append(project_dir, NameA)} |->
                   IF p \in DOMAIN BaseFs THEN DirNode ELSE FileNode(c)]
    /\ edits = 0
    /\ ret = Info(RunId, 1)
    /\ call = [NoArgs EXCEPT !.op = "acquire", !.o = "o1", !.step = "port",
                             !.bound = TRUE]
    /\ rt = {"reload"}

\* every content is drawn by InitText, so one replace_code per behaviour
\* covers all of them
NextText ==
    \/ \E s \in Blocks, r \in Replacements :
          call.op = "acquire" /\ ReplaceCode("o1", TextFile, s, r)
    \/ ReadFile("o1", TextFile)

SpecText == InitText /\ [][NextText]_vars

-----------------------------------------------------------------------------
(* The write-then-read specification: one write_file_folder of a file,     *)
(* over whatever the file held before, and the read_file calls after it.   *)

RoundChars == {"a", NL, CR, Bar}
RoundTexts == TextsOver(RoundChars, MaxRound)
RoundPaths == {<<NameA>>, <<NameB, NameA>>}

InitRound ==
    /\ AfterAcquire
    /\ \/ fs = BaseFs
       \/ \E c \in RoundTexts :
             fs = [p \in DOMAIN BaseFs \cup {Append(project_dir, NameA)} |->
                      IF p \in DOMAIN BaseFs THEN DirNode ELSE FileNode(c)]
    /\ edits = 0
    /\ ret = Info(RunId, 1)
    /\ call = [NoArgs EXCEPT !.op = "acquire", !.o = "o1", !.step = "port",
                             !.bound = TRUE]
    /\ rt = {"reload"}

NextRound ==
    \/ \E p \in RoundPaths, c \in RoundTexts :
          call.op = "acquire" /\ WriteFileFolder("o1", p, "file", c)
    \/ \E p \in RoundPaths : ReadFile("o1", p)

SpecRound == InitRound /\ [][NextRound]_vars

-----------------------------------------------------------------------------
(* The not-acquired specification: every workspace operation, on           *)
(* orchestrators on which get_container() was never called.                *)

NextNull ==
    \E o \in Orch :
        \/ HostOps(o)
        \/ \E s \in Blocks, r \in Replacements : ReplaceCode(o, TextFile, s, r)
        \/ SandboxOps(o)

SpecNull == Init /\ [][NextNull]_vars

-----------------------------------------------------------------------------
(* Vocabulary of the properties.                                           *)

WorkspaceOps == {"list", "read", "read_annotated", "write", "delete", "search",
                 "replace_block", "move", "run", "lint", "logs"}
GuardedOps == {"list", "read", "read_annotated", "write", "replace_block", "move"}

\* the number of offsets at which sub matches s
Occurrences(s, sub) == Cardinality({i \in 1..(Len(s) + 1) : OccursAt(s, sub, i)})

Target(c) == Resolve(project_dir, c.path)
Destination(c) == Resolve(project_dir, c.dest)

PermissionDenied(payload) ==
    payload \in {Err("Access Denied: Path outside workspace"),
                 Err("Access denied: Destination outside workspace")}

-----------------------------------------------------------------------------
(* C1: every workspace operation invoked on an orchestrator whose          *)
(* container handle is None returns the "No container running" error       *)
(* payload, changes nothing in the filesystem and makes no runtime call.   *)
C1_NoContainerFailsFast ==
    [][(call'.op \in WorkspaceOps /\ ~call'.bound)
          => (ret' = ErrNoContainer /\ fs' = fs /\ rt' = {})]_vars

(* C2: whenever an orchestrator is not inside get_container(), its          *)
(* container handle is set only if a get_container() on it has returned    *)
(* ReadinessInfo: after one that returned an error it is still None.       *)
C2_HandleOnlyAfterInfo ==
    \A o \in Orch : (Idle(o) /\ container[o] # Null) => everInfo[o]

(* C3: a guarded operation on a bound orchestrator is refused with the     *)
(* access-denied error exactly when the resolved path (for move: the       *)
(* source or the destination) is neither project_dir nor below it.         *)
C3_GuardContainment ==
    (call.op \in GuardedOps /\ call.bound)
       => (PermissionDenied(ret)
             <=> (\/ ~Inside(Target(call))
                  \/ call.op = "move" /\ ~Inside(Destination(call))))

\* the content of the file a replace_block step was called on: as the step
\* read it, and as the step left it
Before == ReadText(fs, Target(call'))
After == fs'[Target(call')].content

\* the step just taken is a replace_block on an existing file by a bound
\* orchestrator
ReplaceStep ==
    /\ call'.op = "replace_block"
    /\ call'.bound
    /\ IsFile(fs, Target(call'))

(* C4 as stated, for blocks that are not empty: when the content holds     *)
(* exactly one occurrence of search_block, a successful replace_block      *)
(* leaves a content with no occurrence of search_block and exactly one of  *)
(* replace_block.                                                          *)
C4_NoSearchOneReplace ==
    [][(/\ ReplaceStep /\ call'.a # <<>> /\ call'.b # <<>>
        /\ Occurrences(Before, call'.a) = 1 /\ ret' = Success)
          => (/\ Occurrences(After, call'.a) = 0
              /\ Occurrences(After, call'.b) = 1)]_vars

(* C4 as amended: when the content holds exactly one occurrence of         *)
(* search_block, at offset i, replace_block succeeds and the new content   *)
(* is the old one with that occurrence replaced: the text before offset i, *)
(* then replace_block, then the text that followed the occurrence; so      *)
(* replace_block occurs at offset i.                                       *)
C4_SingleOccurrenceSpliced ==
    [][(ReplaceStep /\ Occurrences(Before, call'.a) = 1)
          => (/\ ret' = Success
              /\ \E i \in 1..(Len(Before) + 1) :
                    /\ OccursAt(Before, call'.a, i)
                    /\ After = SubSeq(Before, 1, i - 1) \o call'.b
                               \o SubSeq(Before, i + Len(call'.a), Len(Before))
                    /\ OccursAt(After, call'.b, i))]_vars

\* a replace_block that found its one occurrence and rewrote the file
C4_Witness ==
    /\ call.op = "replace_block"
    /\ ret = Success
    /\ call.a # call.b
    /\ Occurrences(fs[Target(call)].content, call.b) >= 1

(* C5: when search_block does not occur in the content, replace_block      *)
(* returns the no-match error; when it occurs at more than one offset, it  *)
(* returns the ambiguous-match error; in both cases the content is left as *)
(* it was.                                                                 *)
C5_NotUniqueNoEdit ==
    [][ReplaceStep
          => (/\ Occurrences(Before, call'.a) = 0
                    => (ret' = Err("Search block not found") /\ fs' = fs)
              /\ Occurrences(Before, call'.a) > 1
                    => (ret' = Err("Ambiguous match") /\ fs' = fs))]_vars

-----------------------------------------------------------------------------
(* C6: whenever get_container() returns ReadinessInfo, the dev server is   *)
(* running in the container at that moment and the url carries the host    *)
(* port the runtime publishes for the container.                           *)
C6_InfoMeansServing ==
    (call.op = "acquire" /\ ret.kind = "info")
       => (ctr.exists /\ ctr.status = "running" /\ ctr.dev /\ ret.port = ctr.port)

(* C7 as stated: over serialized get_container() calls, containers.run()   *)
(* is called at most once.                                                 *)
C7_CreateAtMostOnce == createCalls <= 1

(* C7 as amended: containers.run() is called only while no container of    *)
(* that name exists, so at most one call creates a container and every     *)
(* get_container() after that reuses it (a call that fails before creating *)
(* one is repeated by the next get_container()); and no operation of the   *)
(* orchestrator removes the container or stops it while it runs.           *)
C7_CreateOnlyWhenAbsent ==
    [][/\ ctr.exists => (createCalls' = createCalls /\ ctr'.exists)
       /\ (ctr.exists /\ ctr.status = "running" /\ call'.op # "env")
             => ctr'.status = "running"]_vars

\* a second get_container() returned ReadinessInfo for the container the
\* first one created
C7_Witness ==
    /\ call.op = "acquire" /\ ret.kind = "info"
    /\ acquires >= 2 /\ createCalls = 1
    /\ hist.prev.kind # "none"

\* two get_container() calls have returned, one after the other, and from
\* the start of the first to the return of the second the dev server did
\* not crash, the container did not stop and no runtime call failed
TwoInSuccession == hist.clean /\ hist.prev.kind # "none"

(* C8 as stated: two get_container() calls in succession, with no crash or *)
(* external change, both return ReadinessInfo, with the same name.         *)
C8_BothInfoSameName ==
    TwoInSuccession
       => (/\ hist.prev.kind = "info" /\ hist.last.kind = "info"
           /\ hist.last.name = hist.prev.name)

(* C8 as amended: of two get_container() calls in succession, with no      *)
(* crash or external change, if the first returns ReadinessInfo then so    *)
(* does the second, with the same name.                                    *)
C8_SecondInfoSameName ==
    (TwoInSuccession /\ hist.prev.kind = "info")
       => (hist.last.kind = "info" /\ hist.last.name = hist.prev.name)

C8_Witness ==
    /\ TwoInSuccession
    /\ hist.prev.kind = "info" /\ hist.last.kind = "info"
    /\ call.op = "acquire" /\ ret.kind = "info"

(* C9: no operation lets a failure escape: whatever the state and whatever *)
(* the runtime answers, it returns a success payload or an error payload.  *)
C9_NoFaultEscapes == ret.kind # "fault"

-----------------------------------------------------------------------------
\* the step just taken is a move by a bound orchestrator whose source and
\* destination both pass the containment test
MoveStep ==
    /\ call'.op = "move"
    /\ call'.bound
    /\ GuardPasses(Target(call'))
    /\ GuardPasses(Destination(call'))

MoveRefused == Exists(fs, Destination(call')) \/ ~Exists(fs, Target(call'))

\* the destination lies inside the source, or below a regular file
MoveImpossible ==
    \/ IsPrefix(Target(call'), Destination(call'))
    \/ \E q \in Ancestors(Destination(call')) : IsFile(fs, q)

MoveDone ==
    /\ ret' = Success
    /\ ~Exists(fs', Target(call'))
    /\ Exists(fs', Destination(call'))

(* C10 as stated: a move whose source and destination pass the containment *)
(* test returns an error and changes nothing when the destination exists   *)
(* or the source is missing; in every other case it succeeds, and then the *)
(* source is absent and the destination present.                           *)
C10_MoveOrRefuse ==
    [][MoveStep
          => IF MoveRefused THEN ret'.kind = "error" /\ fs' = fs
             ELSE MoveDone]_vars

(* C10 as amended: such a move returns an error and changes nothing when   *)
(* the destination exists or the source is missing; it also returns an     *)
(* error when the destination lies inside the source or below a regular    *)
(* file; in every other case it succeeds, and then the source is absent    *)
(* and the destination present.                                            *)
C10_MoveOrRefuseUnlessImpossible ==
    [][MoveStep
          => IF MoveRefused THEN ret'.kind = "error" /\ fs' = fs
             ELSE IF MoveImpossible THEN ret'.kind = "error"
             ELSE MoveDone]_vars

\* a move has succeeded: the source is gone, the destination is there
C10_Witness ==
    /\ call.op = "move" /\ call.bound /\ ret = Success
    /\ ~Exists(fs, Target(call))
    /\ Exists(fs, Destination(call))

-----------------------------------------------------------------------------
\* the step just taken is a read of the path that the step before it wrote a
\* file to, successfully
ReadAfterWrite ==
    /\ call.op = "write" /\ call.word = "file" /\ call.bound /\ ret = Success
    /\ call'.op = "read" /\ call'.path = call.path

(* C11: a successful write(path, "file", content) immediately followed by  *)
(* read(path) returns exactly content, whatever the content and whatever   *)
(* the file held before.                                                   *)
C11_WriteThenRead ==
    [][ReadAfterWrite => ret' = Content(call.a)]_vars

-----------------------------------------------------------------------------
\* the step just taken is a list, by a bound orchestrator, of a directory of
\* the workspace
ListStep ==
    /\ call.op = "list" /\ call.bound
    /\ Inside(Target(call)) /\ IsDir(fs, Target(call))

(* C12: list(subpath) of a directory returns exactly one entry per         *)
(* immediate child, carrying the child's name and type; every folder       *)
(* precedes every file and, within folders and within files, the entries   *)
(* are in increasing lexicographic order of name.                          *)
C12_ListSorted ==
    ListStep =>
       /\ ret.kind = "entries"
       /\ Len(ret.items) = Cardinality(Children(fs, Target(call)))
       /\ \A q \in Children(fs, Target(call)) :
             \E i \in 1..Len(ret.items) :
                /\ ret.items[i].name = q[Len(q)]
                /\ ret.items[i].type = (IF IsDir(fs, q) THEN "folder" ELSE "file")
       /\ \A i, j \in 1..Len(ret.items) :
             i < j =>
                /\ ret.items[i].type = "file" => ret.items[j].type = "file"
                /\ ret.items[i].type = ret.items[j].type
                      => LexLess(ret.items[i].name, ret.items[j].name)

\* a list that put a folder before a file whose name sorts lower
C12_Witness ==
    /\ ListStep /\ ret.kind = "entries" /\ Len(ret.items) >= 2
    /\ ret.items[1].type = "folder" /\ ret.items[2].type = "file"
    /\ LexLess(ret.items[2].name, ret.items[1].name)

-----------------------------------------------------------------------------
\* the step just taken ran a bootstrap command
BootstrapStep == call'.op = "acquire" /\ call'.step = "boot"

(* C13: in the get_container() that creates the container, bootstrap       *)
(* command k runs only after commands 1..k-1 have exited 0, and once each; *)
(* when a command exits non-zero that get_container() returns an error     *)
(* there and then (so it runs no later command and launches no dev         *)
(* server) and the container is left as it is, neither stopped nor         *)
(* removed.                                                                *)
C13_BootstrapInOrder ==
    [][BootstrapStep =>
          /\ \A j \in BootCommands : j < call'.n => j \in ctr.boot
          /\ \A j \in BootCommands : j >= call'.n => j \notin ctr.boot
          /\ call'.word = "zero" => call'.n \in ctr'.boot
          /\ call'.word = "nonzero" =>
                /\ ret'.kind = "error"
                /\ pc'[call'.o] = "idle"
                /\ ctr' = ctr /\ ctr'.exists]_vars

\* the third bootstrap command exited non-zero after the first two exited 0
C13_Witness ==
    /\ call.op = "acquire" /\ call.step = "boot"
    /\ call.n = 3 /\ call.word = "nonzero"
    /\ ret.kind = "error" /\ ctr.exists /\ ctr.boot = {1, 2}

-----------------------------------------------------------------------------
\* the step just taken is the port read of a get_container() that found the
\* container not running and started it, the container running since
RestartedPortRead ==
    /\ call'.op = "acquire" /\ call'.step = "port"
    /\ loc[call'.o].h.kind = "container"
    /\ loc[call'.o].h.status # "running"
    /\ ctr.exists /\ ctr.status = "running"

(* C14: get_container() on a container that exists but is not running      *)
(* starts it, probes for the dev server, reads the port published after    *)
(* the start and returns ReadinessInfo carrying that port.                 *)
C14_StoppedBecomesReady ==
    [][RestartedPortRead
          => (ret'.kind = "info" /\ ret'.port = ctr.port)]_vars

-----------------------------------------------------------------------------
(* C15: a get_container() on a Ready session (the container running and    *)
(* the dev server alive before each of its steps) takes only the steps     *)
(* lookup (line 45), lookup (line 81), liveness probe and port read: it    *)
(* issues no create, no start, no bootstrap command and no dev-server      *)
(* launch, its runtime calls are container lookups and the probe's exec,   *)
(* and it leaves the container and the dev server as they were.            *)
C15_ReadyAcquireOnlyProbes ==
    [][(call'.op = "acquire" /\ call'.word = "ready")
          => (/\ call'.step \in {"lookup", "get", "probe", "port"}
              /\ rt' \subseteq {"get", "exec"}
              /\ pc'[call'.o] \in {"idle", "restart_get", "restart_probe",
                                   "restart_port"}
              /\ ctr' = ctr
              /\ createCalls' = createCalls)]_vars

\* a get_container() on a Ready session has returned ReadinessInfo
C15_Witness ==
    /\ call.op = "acquire" /\ call.word = "ready" /\ call.step = "port"
    /\ ret.kind = "info" /\ Ready

-----------------------------------------------------------------------------
(* C16: nothing in the orchestrator keeps two get_container() calls for    *)
(* one run_id apart: an orchestrator that is not inside get_container()    *)
(* can begin one whatever the other orchestrator is doing, so both can     *)
(* find no container and both issue containers.run() for the name.         *)
C16_NoMutualExclusion ==
    \A o \in Orch :
       (Idle(o) /\ acquires < MaxAcquires) => ENABLED AcquireLookup(o, FALSE)

\* the duplicate-provisioning race: both orchestrators found no container
\* and both have issued containers.run(); the first one to do so is still
\* inside its get_container(), the second has just been refused
C16_Witness ==
    /\ acquires = 2 /\ createCalls = 2
    /\ call.op = "acquire" /\ call.step = "create" /\ ret.kind = "error"
    /\ ctr.exists
    /\ \E q \in Orch \ {call.o} : pc[q] = "boot"

-----------------------------------------------------------------------------
(* C17: get_container() returns ReadinessInfo for a container only if the  *)
(* three bootstrap commands have all exited 0 on that container.           *)
C17_InfoOnlyAfterBootstrap ==
    (call.op = "acquire" /\ ret.kind = "info") => ctr.boot = BootCommands

-----------------------------------------------------------------------------
(* C18: a host-side workspace operation (list, read, read_annotated,       *)
(* write, replace_block, move) that returns an error payload leaves the    *)
(* workspace filesystem exactly as it was before the call.                 *)
C18_ErrorChangesNothing ==
    [][(call'.op \in GuardedOps /\ ret'.kind = "error") => fs' = fs]_vars

====
